---------------------------- MODULE Spec2Model ----------------------------
(***************************************************************************)
(* Model of snap7_db_sync.sync_engine.Snap7DBSync: the binary codec        *)
(* (extract_data and the read-patch-write encoders of write_to_plc), the   *)
(* shared-memory publisher (_update_shared), the background polling loop   *)
(* (_logging_loop) and the public methods that drive it.                   *)
(*                                                                         *)
(* Python values are modelled as records [k |-> kind, v |-> payload]:      *)
(*   bool   v \in BOOLEAN                                                  *)
(*   int    v \in Int                 (Byte, Word, Int, DInt, Time)        *)
(*   u32    v = <<hi, lo>>            hi * 65536 + lo, a DWord, kept in    *)
(*                                    two 16-bit halves                    *)
(*   float  v = <<s, ip, fr>>         s * (ip + fr / 10000): a float that  *)
(*                                    round(x, 4) returned                 *)
(*   dyadic v = <<m, e>>              m * 2^e: a float given by the caller *)
(*   nan, inf, none                   NaN, +-Infinity, None                *)
(* Frames are sequences of bytes; the byte at offset o is frame[o + 1].    *)
(***************************************************************************)
EXTENDS Integers, Sequences, FiniteSets, TLC

---------------------------------------------------------------------------
(* Python values *)

PyBool(b) == [k |-> "bool", v |-> b]
PyInt(n) == [k |-> "int", v |-> n]
PyU32(hi, lo) == [k |-> "u32", v |-> <<hi, lo>>]
PyFloat(s, ip, fr) == [k |-> "float", v |-> <<s, ip, fr>>]
PyDyadic(m, e) == [k |-> "dyadic", v |-> <<m, e>>]
PyNaN == [k |-> "nan", v |-> <<>>]
PyInf(s) == [k |-> "inf", v |-> <<s>>]
PyNone == [k |-> "none", v |-> <<>>]

(* x == y on two freshly decoded values: NaN equals nothing, itself included *)
PyEq(x, y) == x.k = y.k /\ x.k # "nan" /\ x.v = y.v

Pow2(n) == 2 ^ n

RECURSIVE BitLen(_)
BitLen(a) == IF a = 0 THEN 0 ELSE 1 + BitLen(a \div 2)

Abs(n) == IF n < 0 THEN -n ELSE n

---------------------------------------------------------------------------
(* struct.pack / struct.unpack, big-endian *)

Byte0(n) == (n \div 16777216) % 256
Byte1(n) == (n \div 65536) % 256
Byte2(n) == (n \div 256) % 256
Byte3(n) == n % 256

(* the result of a call that may raise: ok = FALSE stands for the exception *)
Ok(x) == [ok |-> TRUE, val |-> x]
Raised == [ok |-> FALSE, val |-> <<>>]

(* struct.pack('>h', n): two's complement, struct.error outside -32768..32767 *)
Pack_h(n) ==
    IF n.k = "int" /\ n.v >= -32768 /\ n.v <= 32767
    THEN Ok(<<Byte2(n.v), Byte3(n.v)>>) ELSE Raised

(* struct.pack('<H', n), the low byte first: not what the code does *)
Pack_H_little(n) ==
    IF n.k = "int" /\ n.v >= 0 /\ n.v <= 65535
    THEN Ok(<<Byte3(n.v), Byte2(n.v)>>) ELSE Raised

(* struct.pack('>H', n): struct.error outside 0..65535 *)
Pack_H(n) ==
    IF n.k = "int" /\ n.v >= 0 /\ n.v <= 65535
    THEN Ok(<<Byte2(n.v), Byte3(n.v)>>) ELSE Raised

(* struct.pack('>i', n): an int of kind "int" is within -2^31..2^31-1 *)
Pack_i(n) ==
    IF n.k = "int"
    THEN Ok(<<Byte0(n.v), Byte1(n.v), Byte2(n.v), Byte3(n.v)>>) ELSE Raised

(* struct.pack('>I', n): struct.error outside 0..2^32-1 *)
Pack_I(n) ==
    IF n.k = "int" /\ n.v >= 0
    THEN Ok(<<Byte0(n.v), Byte1(n.v), Byte2(n.v), Byte3(n.v)>>)
    ELSE IF n.k = "u32" /\ n.v[1] >= 0 /\ n.v[1] <= 65535
    THEN Ok(<<n.v[1] \div 256, n.v[1] % 256, n.v[2] \div 256, n.v[2] % 256>>)
    ELSE Raised

Unpack_h(b) ==
    LET u == b[1] * 256 + b[2] IN PyInt(IF u >= 32768 THEN u - 65536 ELSE u)

Unpack_H(b) == PyInt(b[1] * 256 + b[2])

Unpack_i(b) ==
    PyInt((IF b[1] >= 128 THEN b[1] - 256 ELSE b[1]) * 16777216
          + b[2] * 65536 + b[3] * 256 + b[4])

Unpack_I(b) ==
    IF b[1] < 128
    THEN PyInt(b[1] * 16777216 + b[2] * 65536 + b[3] * 256 + b[4])
    ELSE PyU32(b[1] * 256 + b[2], b[3] * 256 + b[4])

(* A double m * 2^e converted to IEEE-754 single precision, as the C cast   *)
(* of struct.pack('>f') does it: round to nearest, ties to even, 24 bits.  *)
(* The result is <<sign, M, X>>, the value sign * M * 2^(X - 23) with      *)
(* 2^23 <= M < 2^24, or <<1, 0, 0>> for zero. Results below the normal     *)
(* range (X < -126) are outside the modelled inputs.                       *)
ToSingle(m, e) ==
    IF m = 0 THEN <<1, 0, 0>>
    ELSE LET a == Abs(m)
             L == BitLen(a)
             s == IF m < 0 THEN -1 ELSE 1
         IN  IF L <= 24
             THEN <<s, a * Pow2(24 - L), L - 1 + e>>
             ELSE LET sh == L - 24
                      q == a \div Pow2(sh)
                      r == a % Pow2(sh)
                      half == Pow2(sh - 1)
                      up == r > half \/ (r = half /\ q % 2 = 1)
                      M == IF up THEN q + 1 ELSE q
                  IN  IF M = 16777216
                      THEN <<s, 8388608, L + e>>
                      ELSE <<s, M, L - 1 + e>>

(* struct.pack('>f', x): OverflowError when a finite x does not fit *)
Pack_f(x) ==
    IF x.k = "nan" THEN Ok(<<127, 192, 0, 0>>)
    ELSE IF x.k = "inf" THEN Ok(<<IF x.v[1] < 0 THEN 255 ELSE 127, 128, 0, 0>>)
    ELSE IF x.k # "dyadic" THEN Raised
    ELSE LET sg == ToSingle(x.v[1], x.v[2])
             sbit == IF sg[1] < 0 THEN 128 ELSE 0
             E == sg[3] + 127
             frac == sg[2] - 8388608
         IN  IF sg[2] = 0 THEN Ok(<<0, 0, 0, 0>>)
             ELSE IF sg[3] > 127 THEN Raised
             ELSE Ok(<<sbit + E \div 2,
                       (E % 2) * 128 + frac \div 65536,
                       (frac \div 256) % 256,
                       frac % 256>>)

(* struct.unpack('>f', b): the single as the double m * 2^e it denotes *)
Unpack_f(b) ==
    LET s == IF b[1] >= 128 THEN -1 ELSE 1
        E == (b[1] % 128) * 2 + b[2] \div 128
        frac == (b[2] % 128) * 65536 + b[3] * 256 + b[4]
    IN  IF E = 255 THEN (IF frac = 0 THEN PyInf(s) ELSE PyNaN)
        ELSE IF E = 0 THEN PyDyadic(s * frac, -149)
        ELSE PyDyadic(s * (8388608 + frac), E - 150)

(* round-half-even of rem * 10000 / 2^sh, for 0 <= rem < 2^sh, rem < 2^26, *)
(* in 32-bit arithmetic: 10000 = 16 * 625 and rem is split at 12 bits      *)
Frac4(rem, sh) ==
    IF sh <= 16
    THEN LET p == rem * 10000
             q == p \div Pow2(sh)
             r == p % Pow2(sh)
         IN  IF 2 * r > Pow2(sh) \/ (2 * r = Pow2(sh) /\ q % 2 = 1)
             THEN q + 1 ELSE q
    ELSE LET c == (rem % 4096) * 625
             N == (rem \div 4096) * 625 + c \div 4096
             cl == c % 4096
             u == sh - 16
         IN  IF u > 30 THEN 0
             ELSE LET q == N \div Pow2(u)
                      R == N % Pow2(u)
                      half == Pow2(u - 1)
                      up == R > half \/ (R = half /\ (cl > 0 \/ q % 2 = 1))
                  IN  IF up THEN q + 1 ELSE q

RECURSIVE OddPart(_, _)
OddPart(a, e) == IF a % 2 = 0 THEN OddPart(a \div 2, e + 1) ELSE <<a, e>>

(* round(x, 4) of a float: correctly rounded, ties to even, on the exact   *)
(* binary value. An integer-valued float of 2^31 or more is returned as    *)
(* it is (kind "big", odd mantissa and exponent).                          *)
Round4(x) ==
    IF x.k # "dyadic" THEN x
    ELSE LET m == x.v[1]
             e == x.v[2]
             a == Abs(m)
             s == IF m < 0 THEN -1 ELSE 1
         IN  IF m = 0 THEN PyFloat(1, 0, 0)
             ELSE IF e >= 0
             THEN (IF BitLen(a) + e <= 31
                   THEN PyFloat(s, a * Pow2(e), 0)
                   ELSE [k |-> "big", v |-> <<s>> \o OddPart(a, e)])
             ELSE LET sh == -e
                      ip == IF sh > 30 THEN 0 ELSE a \div Pow2(sh)
                      rem == IF sh > 30 THEN a ELSE a % Pow2(sh)
                      fr == Frac4(rem, sh)
                  IN  IF fr = 10000 THEN PyFloat(s, ip + 1, 0)
                      ELSE IF ip = 0 /\ fr = 0 THEN PyFloat(1, 0, 0)
                      ELSE PyFloat(s, ip, fr)

---------------------------------------------------------------------------
(* The memory map and the codec *)

(* types: the byte size of each supported type *)
TypeSize(t) ==
    CASE t = "bool" -> 1 [] t = "byte" -> 1
      [] t = "word" -> 2 [] t = "int" -> 2
      [] t = "dword" -> 4 [] t = "dint" -> 4
      [] t = "real" -> 4 [] t = "time" -> 4

Field(n, t, o, b) == [name |-> n, type |-> t, offset |-> o, bit |-> b, size |-> TypeSize(t)]

(* data_byte[offset:offset + size]: a slice never raises, it comes out short *)
Slice(buf, offset, size) ==
    [i \in 1..(IF Len(buf) - offset < 0 THEN 0
               ELSE IF Len(buf) - offset < size THEN Len(buf) - offset
               ELSE size) |-> buf[offset + i]]

(* (byte_val >> bit) & 1 *)
BitOf(byte_val, bit) == (byte_val \div Pow2(bit)) % 2

(* One field of extract_data. An index past the frame is an IndexError,   *)
(* which the loop body catches to store None; a short slice makes         *)
(* struct.unpack raise struct.error, which it does not catch.             *)
DecodeField(data_byte, meta) ==
    IF meta.type = "bool"
    THEN (IF meta.offset >= Len(data_byte) THEN Ok(PyNone)
          ELSE Ok(PyBool(BitOf(data_byte[meta.offset + 1], meta.bit) = 1)))
    ELSE IF meta.type = "byte"
    THEN (IF meta.offset >= Len(data_byte) THEN Ok(PyNone)
          ELSE Ok(PyInt(data_byte[meta.offset + 1])))
    ELSE LET raw == Slice(data_byte, meta.offset, meta.size)
         IN  IF Len(raw) # meta.size THEN Raised
             ELSE CASE meta.type = "int" -> Ok(Unpack_h(raw))
                    [] meta.type = "word" -> Ok(Unpack_H(raw))
                    [] meta.type = "dint" -> Ok(Unpack_i(raw))
                    [] meta.type = "time" -> Ok(Unpack_i(raw))
                    [] meta.type = "dword" -> Ok(Unpack_I(raw))
                    [] meta.type = "real" -> Ok(Round4(Unpack_f(raw)))

(* extract_data: the decoded values in the order of tag_dict, or the      *)
(* exception that escapes it                                              *)
extract_data(data_byte, tag_dict) ==
    LET each == [i \in 1..Len(tag_dict) |-> DecodeField(data_byte, tag_dict[i])]
    IN  IF \E i \in 1..Len(tag_dict) : ~each[i].ok THEN Raised
        ELSE Ok([i \in 1..Len(tag_dict) |-> each[i].val])

(* bool(value), int(value), float(value) of write_to_plc *)
ToBool(x) ==
    CASE x.k = "bool" -> Ok(x.v)
      [] x.k = "int" -> Ok(x.v # 0)
      [] x.k = "none" -> Ok(FALSE)
      [] OTHER -> Ok(TRUE)

ToInt(x) ==
    CASE x.k = "int" -> Ok(x)
      [] x.k = "u32" -> Ok(x)
      [] x.k = "bool" -> Ok(PyInt(IF x.v THEN 1 ELSE 0))
      [] OTHER -> Raised

ToFloat(x) ==
    CASE x.k = "dyadic" -> Ok(x)
      [] x.k = "nan" -> Ok(x)
      [] x.k = "inf" -> Ok(x)
      [] x.k = "int" -> Ok(PyDyadic(x.v, 0))
      [] x.k = "bool" -> Ok(PyDyadic(IF x.v THEN 1 ELSE 0, 0))
      [] OTHER -> Raised

(* buf[offset + i] = bytes[i] for each i: an index past the end raises *)
StoreEach(buf, offset, bytes) ==
    IF offset + Len(bytes) > Len(buf) THEN Raised
    ELSE Ok([i \in 1..Len(buf) |->
                IF i > offset /\ i <= offset + Len(bytes) THEN bytes[i - offset] ELSE buf[i]])

(* buf[offset:offset + n] = bytes, a slice assignment of n = Len(bytes)   *)
(* bytes: it never raises, and past the end it appends                    *)
StoreSlice(buf, offset, bytes) ==
    LET start == IF offset > Len(buf) THEN Len(buf) ELSE offset
    IN  Ok(SubSeq(buf, 1, start) \o bytes \o SubSeq(buf, start + Len(bytes) + 1, Len(buf)))

(* a set_bool that stores the bit alone in the byte: not what the code does *)
set_bool_alone(buf, offset, bit, value) ==
    IF offset >= Len(buf) THEN Raised
    ELSE Ok([buf EXCEPT ![offset + 1] = IF value THEN Pow2(bit) ELSE 0])

(* snap7.util.set_bool: reads the bit, and adds or subtracts 1 << bit     *)
(* when it differs; a byte leaving 0..255 is a ValueError                 *)
set_bool(buf, offset, bit, value) ==
    IF offset >= Len(buf) THEN Raised
    ELSE LET cur == buf[offset + 1]
             index_value == Pow2(bit)
             current_value == (cur \div index_value) % 2 = 1 /\ bit <= 7
             new == IF current_value = value THEN cur
                    ELSE IF value THEN cur + index_value ELSE cur - index_value
         IN  IF new < 0 \/ new > 255 THEN Raised
             ELSE Ok([buf EXCEPT ![offset + 1] = new])

set_int(buf, offset, value) ==
    LET p == Pack_h(value) IN IF p.ok THEN StoreSlice(buf, offset, p.val) ELSE Raised

set_word(buf, offset, value) ==
    LET p == Pack_H(value) IN IF p.ok THEN StoreSlice(buf, offset, p.val) ELSE Raised

set_dint(buf, offset, value) ==
    LET p == Pack_i(value) IN IF p.ok THEN StoreEach(buf, offset, p.val) ELSE Raised

set_dword(buf, offset, value) ==
    LET p == Pack_I(value) IN IF p.ok THEN StoreEach(buf, offset, p.val) ELSE Raised

set_real(buf, offset, value) ==
    LET p == Pack_f(value) IN IF p.ok THEN StoreEach(buf, offset, p.val) ELSE Raised

(* current_buffer[offset] = int(value) & 0xFF *)
set_byte(buf, offset, value) ==
    IF offset >= Len(buf) THEN Raised
    ELSE Ok([buf EXCEPT ![offset + 1] =
                IF value.k = "u32" THEN value.v[2] % 256 ELSE value.v % 256])

(* the body of write_to_plc's loop for one (name, value) of changes *)
ApplyOne(buf, meta, value) ==
    IF meta.type = "bool"
    THEN set_bool(buf, meta.offset, meta.bit, ToBool(value).val)
    ELSE IF meta.type = "real"
    THEN (LET f == ToFloat(value) IN
          IF f.ok THEN set_real(buf, meta.offset, f.val) ELSE Raised)
    ELSE LET n == ToInt(value) IN
         IF ~n.ok THEN Raised
         ELSE CASE meta.type = "int" -> set_int(buf, meta.offset, n.val)
                [] meta.type = "word" -> set_word(buf, meta.offset, n.val)
                [] meta.type = "byte" -> set_byte(buf, meta.offset, n.val)
                [] meta.type = "dint" -> set_dint(buf, meta.offset, n.val)
                [] meta.type = "time" -> set_dint(buf, meta.offset, n.val)
                [] meta.type = "dword" -> set_dword(buf, meta.offset, n.val)

(* the index in tag_dict of the field called name, 0 when there is none *)
IndexOf(tag_dict, name) ==
    IF \E i \in 1..Len(tag_dict) : tag_dict[i].name = name
    THEN CHOOSE i \in 1..Len(tag_dict) : tag_dict[i].name = name
    ELSE 0

(* a loop over changes that goes past a failing encoder: not what the code does *)
RECURSIVE ApplyChangesSkipping(_, _, _)
ApplyChangesSkipping(buf, tag_dict, changes) ==
    IF changes = <<>> THEN Ok(buf)
    ELSE LET i == IndexOf(tag_dict, Head(changes)[1])
             r == IF i = 0 THEN Ok(buf) ELSE ApplyOne(buf, tag_dict[i], Head(changes)[2])
         IN  ApplyChangesSkipping(IF r.ok THEN r.val ELSE buf, tag_dict, Tail(changes))

(* write_to_plc's loop over changes (a sequence of <<name, value>> in the *)
(* dict's order): unknown names are skipped, the first failing encoder    *)
(* ends the loop with its exception                                       *)
RECURSIVE ApplyChanges(_, _, _)
ApplyChanges(buf, tag_dict, changes) ==
    IF changes = <<>> THEN Ok(buf)
    ELSE LET i == IndexOf(tag_dict, Head(changes)[1])
             r == IF i = 0 THEN Ok(buf) ELSE ApplyOne(buf, tag_dict[i], Head(changes)[2])
         IN  IF r.ok THEN ApplyChanges(r.val, tag_dict, Tail(changes)) ELSE Raised

---------------------------------------------------------------------------
(* json.dumps(values, separators=(',', ':')).encode('utf-8'): the payload  *)
(* as a sequence of bytes                                                  *)

RECURSIVE Digits(_)
Digits(n) == IF n < 10 THEN <<48 + n>> ELSE Digits(n \div 10) \o <<48 + (n % 10)>>

(* the decimal digits of hi * 65536 + lo *)
RECURSIVE DigitsU32(_, _)
DigitsU32(hi, lo) ==
    IF hi = 0 THEN Digits(lo)
    ELSE LET t == (hi % 10) * 65536 + lo
         IN  DigitsU32(hi \div 10, t \div 10) \o <<48 + (t % 10)>>

(* the four decimals of a float, without trailing zeros, at least one *)
FracDigits(fr) ==
    LET d == <<48 + (fr \div 1000), 48 + ((fr \div 100) % 10),
               48 + ((fr \div 10) % 10), 48 + (fr % 10)>>
        n == IF fr % 10 # 0 THEN 4 ELSE IF fr % 100 # 0 THEN 3 ELSE IF fr % 1000 # 0 THEN 2 ELSE 1
    IN  SubSeq(d, 1, n)

Minus(neg) == IF neg THEN <<45>> ELSE <<>>

(* true, false, null, NaN, Infinity, an int, or the repr of a float that  *)
(* round(x, 4) returned (below 2^31)                                      *)
JsonValue(x) ==
    CASE x.k = "bool" -> (IF x.v THEN <<116, 114, 117, 101>> ELSE <<102, 97, 108, 115, 101>>)
      [] x.k = "none" -> <<110, 117, 108, 108>>
      [] x.k = "nan" -> <<78, 97, 78>>
      [] x.k = "inf" -> Minus(x.v[1] < 0) \o <<73, 110, 102, 105, 110, 105, 116, 121>>
      [] x.k = "int" -> Minus(x.v < 0) \o Digits(Abs(x.v))
      [] x.k = "u32" -> DigitsU32(x.v[1], x.v[2])
      [] x.k = "float" -> Minus(x.v[1] < 0) \o Digits(x.v[2]) \o <<46>> \o FracDigits(x.v[3])

(* the UTF-8 bytes of a field name: names are single lower-case letters *)
NameBytes(name) ==
    CASE name = "a" -> <<97>> [] name = "b" -> <<98>> [] name = "c" -> <<99>>
      [] name = "i" -> <<105>> [] name = "r" -> <<114>> [] name = "n" -> <<110>>

RECURSIVE JsonItems(_, _, _)
JsonItems(values, tag_dict, i) ==
    IF i > Len(tag_dict) THEN <<>>
    ELSE (IF i > 1 THEN <<44>> ELSE <<>>)
         \o <<34>> \o NameBytes(tag_dict[i].name) \o <<34, 58>> \o JsonValue(values[i])
         \o JsonItems(values, tag_dict, i + 1)

json_dumps(values, tag_dict) == <<123>> \o JsonItems(values, tag_dict, 1) \o <<125>>

(* values != last_values on two dicts with the same keys *)
ValuesDiffer(values, last_values) ==
    \/ last_values = <<>>
    \/ \E i \in 1..Len(values) : ~PyEq(values[i], last_values[i])

---------------------------------------------------------------------------
(* _update_shared: the region mv and the high-water mark after publishing  *)
(* payload into a region of shm_size bytes                                 *)

ShmSize == 28

(* a publish that does not cut the payload: not what the code does *)
UpdateSharedLenUncut(payload) == Len(payload)

(* lines 231-234: the number of bytes of the payload that are stored *)
UpdateSharedLen(payload) == IF Len(payload) > ShmSize THEN ShmSize ELSE Len(payload)

(* lines 235-238: the indices of the region a publish assigns, counted from 1 *)
WrittenIndices(last_len, payload) ==
    (1..UpdateSharedLen(payload))
        \cup (IF last_len > UpdateSharedLen(payload)
              THEN (UpdateSharedLen(payload) + 1)..last_len ELSE {})

(* a publish that leaves the tail of the previous payload: not what the code does *)
update_shared_no_fill(mv, last_len, payload) ==
    LET payload_len == UpdateSharedLen(payload)
    IN  [mv |-> [i \in 1..Len(mv) |-> IF i <= payload_len THEN payload[i] ELSE mv[i]],
         last_len |-> payload_len]

_update_shared(mv, last_len, payload) ==
    LET payload_len == UpdateSharedLen(payload)
    IN  [mv |-> [i \in 1..Len(mv) |->
                    IF i <= payload_len THEN payload[i]
                    ELSE IF i <= last_len THEN 0
                    ELSE mv[i]],
         last_len |-> payload_len]

---------------------------------------------------------------------------
(* The engine: one Snap7DBSync object, the threads that call its public    *)
(* methods, the background threads start_logging creates, and the device.  *)

(* the map and length parse_siemens_db gives for  a : Bool; b : Bool; r : Real; *)
data_struct == <<Field("a", "bool", 0, 0), Field("b", "bool", 0, 1), Field("r", "real", 2, 0)>>
total_len == 6

(* bounds of the model *)
MaxLoops == 2
MaxCalls == 3

Loops == 1..MaxLoops

(* the calling threads: the application's main thread, which calls every   *)
(* public method, and a second thread, which calls start_logging and       *)
(* write_to_plc                                                            *)
Callers == {1, 2}
Methods(t) ==
    IF t = 1 THEN {"connect", "start", "stop", "write", "close"} ELSE {"start", "write"}

(* records the device's own program stores in the block *)
PlcFrames ==
    { <<0, 0, 0, 0, 0, 0>>,
      <<3, 0, 127, 192, 0, 0>> }

(* the change sets callers pass to write_to_plc, as <<name, value>> in dict order *)
WriteSets ==
    { <<>>,
      << <<"z", PyInt(1)>>, <<"a", PyBool(TRUE)>> >>,
      << <<"a", PyBool(FALSE)>>, <<"r", PyNone>> >> }

Free == <<"free", 0>>
LoopId(i) == <<"loop", i>>
CallerId(t) == <<"caller", t>>
NoOp == "none"

VARIABLES
    running,     \* self.running
    lock,        \* self.lock: Free or the thread holding it
    thread,      \* self.thread: the index of the last thread started, 0 when unset
    client,      \* self.client: "none", "live" or "destroyed"
    connected,   \* whether the transport holds a connection to the device
    shm,         \* self.shm: "none", "open", or "closed" (closed, not yet unlinked)
    mv,          \* self.shm.buf
    last_len,    \* self._last_len
    db,          \* the device's record
    lpc,         \* each background thread's position in _logging_loop
    lio,         \* the transport call a background thread has in flight
    last_values, \* _logging_loop's last_values, <<>> for None
    values,      \* _logging_loop's values, between decoding and publishing
    cpc,         \* each caller's position in the method it runs
    cop,         \* the method a caller runs, or ran last
    cio,         \* the transport call a caller has in flight
    cret,        \* what the caller's last call returned
    cchg,        \* write_to_plc's changes
    cbuf,        \* write_to_plc's current_buffer
    calls,       \* the number of calls made so far
    hist,        \* history, for stating the properties
    codec,       \* the codec exercised alone: a frame, a change, the results
    parse        \* the parser exercised alone: a blueprint and what it gives

evars == <<running, lock, thread, client, connected, shm, mv, last_len, db,
           lpc, lio, last_values, values, cpc, cop, cio, cret, cchg, cbuf, calls, hist>>
vars == <<evars, codec, parse>>

Zeros(n) == [i \in 1..n |-> 0]

(* history of one background thread: how the read of the current cycle    *)
(* failed ("busy", "fail", or "decode" for extract_data raising), the      *)
(* disconnect and connect attempts in the cycle; whether its current run   *)
(* of successful cycles has read the record (run: none yet, "clean": read  *)
(* and unchanged since, "dirty": changed since), and the publishes in that *)
(* run                                                                     *)
LoopHist0 == [err |-> "none", disc |-> 0, conn |-> 0, run |-> "none", pubs |-> 0]
(* history of one call: the transport reads and writes issued, the step    *)
(* that failed, whether the join of stop_logging expired                   *)
CallHist0 == [reads |-> 0, writes |-> 0, fail |-> "none", expired |-> FALSE]
(* the whole history; shrink: the latest publish was shorter than the one  *)
(* before it and found a byte of that one beyond its own end               *)
Hist0 == [loop |-> [i \in Loops |-> LoopHist0], call |-> [t \in Callers |-> CallHist0],
          shrink |-> FALSE]

Sat(n) == IF n >= 2 THEN 2 ELSE n + 1

(* the codec variable while the engine runs *)
CodecIdle ==
    [phase |-> "idle", frame |-> <<>>, name |-> "", value |-> PyNone,
     patched |-> Raised, decoded |-> Raised]

(* the parser variable while the engine runs *)
ParseIdle == [phase |-> "idle", grammar |-> "", text |-> <<>>, total |-> 0, data |-> <<>>]

(* the object as __init__ leaves it, no call made and no thread started *)
Constructed ==
    /\ running = FALSE
    /\ lock = Free
    /\ thread = 0
    /\ client = "none"
    /\ connected = FALSE
    /\ shm = "none"
    /\ mv = Zeros(ShmSize)
    /\ last_len = 0
    /\ lpc = [i \in Loops |-> "unborn"]
    /\ lio = [i \in Loops |-> NoOp]
    /\ last_values = [i \in Loops |-> <<>>]
    /\ values = [i \in Loops |-> <<>>]
    /\ cpc = [t \in Callers |-> "idle"]
    /\ cop = [t \in Callers |-> "none"]
    /\ cio = [t \in Callers |-> NoOp]
    /\ cret = [t \in Callers |-> "none"]
    /\ cchg = [t \in Callers |-> <<>>]
    /\ cbuf = [t \in Callers |-> <<>>]
    /\ calls = 0
    /\ hist = Hist0

EngineInit ==
    /\ Constructed
    /\ db \in PlcFrames
    /\ codec = CodecIdle
    /\ parse = ParseIdle

(* a call on self.client: in flight on a client object, an AttributeError *)
(* at once on None                                                        *)
Issue(op) == IF client = "none" THEN NoOp ELSE op

(* a caller enters a public method *)
Called(t, op) ==
    /\ cpc[t] = "idle"
    /\ op \in Methods(t)
    /\ calls < MaxCalls
    /\ calls' = calls + 1
    /\ cop' = [cop EXCEPT ![t] = op]

Enter(t, op) ==
    /\ Called(t, op)
    /\ cret' = [cret EXCEPT ![t] = "none"]
    /\ hist' = [hist EXCEPT !.call[t] = CallHist0]

(* a caller's method returns r *)
Return(t, r) ==
    /\ cpc' = [cpc EXCEPT ![t] = "idle"]
    /\ cret' = [cret EXCEPT ![t] = r]

---------------------------------------------------------------------------
(* connect() *)

(* lines 300-305: allocate the segment when there is none (created = FALSE *)
(* is SharedMemory raising, which sends the call to its except branch),    *)
(* make a Client and call its connect                                      *)
ConnectBegin(t) ==
    /\ Enter(t, "connect")
    /\ \E created \in BOOLEAN :
         /\ shm # "none" => created
         /\ shm' = IF created /\ shm = "none" THEN "open" ELSE shm
         /\ mv' = IF created /\ shm = "none" THEN Zeros(ShmSize) ELSE mv
         /\ cpc' = [cpc EXCEPT ![t] = IF created THEN "c_first" ELSE "c_retry"]
    /\ client' = "live"
    /\ cio' = [cio EXCEPT ![t] = "connect"]
    /\ UNCHANGED <<codec, parse, running, lock, thread, connected, last_len, db, lpc, lio,
                   last_values, values, cchg, cbuf>>

(* lines 305-318: the first connect returns, or raises and a new Client tries again *)
ConnectFirst(t) ==
    /\ cpc[t] = "c_first"
    /\ \E ok \in BOOLEAN :
         IF ok
         THEN /\ connected' = TRUE
              /\ cio' = [cio EXCEPT ![t] = NoOp]
              /\ Return(t, "true")
         ELSE /\ cpc' = [cpc EXCEPT ![t] = "c_retry"]
              /\ UNCHANGED <<connected, cio, cret>>
    /\ client' = "live"
    /\ UNCHANGED <<codec, parse, running, lock, thread, shm, mv, last_len, db, lpc, lio,
                   last_values, values, cop, cchg, cbuf, calls, hist>>

(* lines 317-322: the second connect returns or raises *)
ConnectRetry(t) ==
    /\ cpc[t] = "c_retry"
    /\ \E ok \in BOOLEAN :
         /\ connected' = IF ok THEN TRUE ELSE connected
         /\ Return(t, IF ok THEN "true" ELSE "false")
    /\ cio' = [cio EXCEPT ![t] = NoOp]
    /\ UNCHANGED <<codec, parse, running, lock, thread, client, shm, mv, last_len, db, lpc, lio,
                   last_values, values, cop, cchg, cbuf, calls, hist>>

---------------------------------------------------------------------------
(* start_logging() and stop_logging() *)

Born == {i \in Loops : lpc[i] # "unborn"}
Alive == {i \in Loops : lpc[i] \notin {"unborn", "done"}}

(* line 339: the test of self.running *)
StartCheck(t) ==
    /\ Enter(t, "start")
    /\ Cardinality(Born) + Cardinality({u \in Callers : cpc[u] = "s_set"}) < MaxLoops
    /\ IF running
       THEN cpc' = cpc
       ELSE cpc' = [cpc EXCEPT ![t] = "s_set"]
    /\ UNCHANGED <<codec, parse, running, lock, thread, client, connected, shm, mv, last_len, db,
                   lpc, lio, last_values, values, cio, cchg, cbuf>>

(* lines 341-343: set the flag, create the thread and start it *)
StartThread(t) ==
    /\ cpc[t] = "s_set"
    /\ running' = TRUE
    /\ LET n == Cardinality(Born) + 1 IN
         /\ thread' = n
         /\ lpc' = [lpc EXCEPT ![n] = "l_while"]
    /\ Return(t, "none")
    /\ UNCHANGED <<codec, parse, lock, client, connected, shm, mv, last_len, db, lio,
                   last_values, values, cop, cio, cchg, cbuf, calls, hist>>

(* line 397 *)
StopClear(t) ==
    /\ Enter(t, "stop")
    /\ running' = FALSE
    /\ cpc' = [cpc EXCEPT ![t] = "st_join"]
    /\ UNCHANGED <<codec, parse, lock, thread, client, connected, shm, mv, last_len, db,
                   lpc, lio, last_values, values, cio, cchg, cbuf>>

(* whether a join(timeout) that returns now returns on its timeout *)
JoinExpired == thread # 0 /\ lpc[thread] # "done"

(* lines 398-399: join(timeout=2.0) returns, the thread finished or not *)
StopJoin(t) ==
    /\ cpc[t] = "st_join"
    /\ hist' = [hist EXCEPT !.call[t].expired = JoinExpired]
    /\ Return(t, "none")
    /\ UNCHANGED <<codec, parse, running, lock, thread, client, connected, shm, mv, last_len, db,
                   lpc, lio, last_values, values, cop, cio, cchg, cbuf, calls>>

---------------------------------------------------------------------------
(* write_to_plc(changes) *)

(* the history once the device's record changed: every run is dirty *)
RecordChanged(h) ==
    [h EXCEPT !.loop = [i \in Loops |->
        [h.loop[i] EXCEPT !.run = IF @ = "none" THEN "none" ELSE "dirty"]]]

(* how a transport call that is in flight can end *)
CallOutcomes(op) ==
    IF op = NoOp THEN {"fail"}
    ELSE (IF connected /\ client = "live" THEN {"ok"} ELSE {}) \cup {"busy", "fail"}

(* lines 354-355: an empty change set returns False at once *)
WriteBegin(t) ==
    /\ Called(t, "write")
    /\ \E chg \in WriteSets :
         IF chg = <<>>
         THEN /\ hist' = [hist EXCEPT !.call[t] = [CallHist0 EXCEPT !.fail = "invalid"]]
              /\ cret' = [cret EXCEPT ![t] = "false"]
              /\ UNCHANGED <<cchg, cpc>>
         ELSE /\ cchg' = [cchg EXCEPT ![t] = chg]
              /\ cpc' = [cpc EXCEPT ![t] = "w_lock"]
              /\ hist' = [hist EXCEPT !.call[t] = CallHist0]
              /\ cret' = [cret EXCEPT ![t] = "none"]
    /\ UNCHANGED <<codec, parse, running, lock, thread, client, connected, shm, mv, last_len, db,
                   lpc, lio, last_values, values, cio, cbuf>>

(* lines 356-359: take the lock and call db_read *)
WriteLock(t) ==
    /\ cpc[t] = "w_lock"
    /\ lock = Free
    /\ lock' = CallerId(t)
    /\ cio' = [cio EXCEPT ![t] = Issue("db_read")]
    /\ hist' = [hist EXCEPT !.call[t].reads = @ + (IF client = "none" THEN 0 ELSE 1)]
    /\ cpc' = [cpc EXCEPT ![t] = "w_read"]
    /\ UNCHANGED <<codec, parse, running, thread, client, connected, shm, mv, last_len, db,
                   lpc, lio, last_values, values, cop, cret, cchg, cbuf, calls>>

(* what write_to_plc does once db_read returned buf: patch, then call     *)
(* db_write, or give up when an encoder raised (h: the history so far)    *)
WritePatched(t, buf, h) ==
    LET r == ApplyChanges(buf, data_struct, cchg[t])
    IN  IF r.ok
        THEN /\ cbuf' = [cbuf EXCEPT ![t] = r.val]
             /\ cio' = [cio EXCEPT ![t] = Issue("db_write")]
             /\ hist' = [h EXCEPT !.call[t].writes = @ + 1]
             /\ cpc' = [cpc EXCEPT ![t] = "w_write"]
             /\ UNCHANGED <<lock, cret, cchg>>
        ELSE /\ lock' = Free
             /\ cio' = [cio EXCEPT ![t] = NoOp]
             /\ hist' = [h EXCEPT !.call[t].fail = "encode"]
             /\ cchg' = [cchg EXCEPT ![t] = <<>>]
             /\ Return(t, "false")
             /\ UNCHANGED cbuf

(* going on to the write after a failed read: not what the code does *)
WriteReadIgnored(t, h) == WritePatched(t, Zeros(total_len), h)

(* an except branch that returns with the lock still held: not what the code does *)
WriteReadFailedLocked(t, h) ==
    /\ lock' = lock
    /\ cio' = [cio EXCEPT ![t] = NoOp]
    /\ hist' = h
    /\ cchg' = [cchg EXCEPT ![t] = <<>>]
    /\ Return(t, "false")
    /\ UNCHANGED cbuf

(* what write_to_plc does when db_read raised: the except branch *)
WriteReadFailed(t, h) ==
    /\ lock' = Free
    /\ cio' = [cio EXCEPT ![t] = NoOp]
    /\ hist' = h
    /\ cchg' = [cchg EXCEPT ![t] = <<>>]
    /\ Return(t, "false")
    /\ UNCHANGED cbuf

(* lines 359-386: db_read returns or raises *)
WriteRead(t) ==
    /\ cpc[t] = "w_read"
    /\ \E out \in CallOutcomes(cio[t]) :
         IF out = "ok"
         THEN WritePatched(t, db, hist)
         ELSE WriteReadFailed(t, [hist EXCEPT !.call[t].fail = "read"])
    /\ UNCHANGED <<codec, parse, running, thread, client, connected, shm, mv, last_len, db,
                   lpc, lio, last_values, values, cop, calls>>

(* lines 386-391: db_write returns or raises *)
WriteBack(t) ==
    /\ cpc[t] = "w_write"
    /\ \E out \in CallOutcomes(cio[t]) :
         /\ db' = IF out = "ok" THEN cbuf[t] ELSE db
         /\ hist' = IF out # "ok" THEN [hist EXCEPT !.call[t].fail = "write"]
                    ELSE IF cbuf[t] = db THEN hist ELSE RecordChanged(hist)
         /\ Return(t, IF out = "ok" THEN "true" ELSE "false")
    /\ lock' = Free
    /\ cio' = [cio EXCEPT ![t] = NoOp]
    /\ cbuf' = [cbuf EXCEPT ![t] = <<>>]
    /\ cchg' = [cchg EXCEPT ![t] = <<>>]
    /\ UNCHANGED <<codec, parse, running, thread, client, connected, shm, mv, last_len,
                   lpc, lio, last_values, values, cop, calls>>

---------------------------------------------------------------------------
(* close_connection() *)

(* lines 410-411: with the flag set, stop_logging clears it and joins *)
CloseBegin(t) ==
    /\ Enter(t, "close")
    /\ running' = FALSE
    /\ cpc' = [cpc EXCEPT ![t] = IF running THEN "cl_join" ELSE "cl_shm"]
    /\ UNCHANGED <<codec, parse, lock, thread, client, connected, shm, mv, last_len, db,
                   lpc, lio, last_values, values, cio, cchg, cbuf>>

(* lines 399, 413: the join returns and disconnect is called *)
CloseJoin(t) ==
    /\ cpc[t] = "cl_join"
    /\ hist' = [hist EXCEPT !.call[t].expired = JoinExpired]
    /\ cio' = [cio EXCEPT ![t] = Issue("disconnect")]
    /\ cpc' = [cpc EXCEPT ![t] = "cl_disc"]
    /\ UNCHANGED <<codec, parse, running, lock, thread, client, connected, shm, mv, last_len, db,
                   lpc, lio, last_values, values, cop, cret, cchg, cbuf, calls>>

(* lines 413-416: disconnect returns and the client is destroyed, or it   *)
(* raises and destroy is skipped                                          *)
CloseDisconnect(t) ==
    /\ cpc[t] = "cl_disc"
    /\ \E ok \in (IF cio[t] = NoOp THEN {FALSE} ELSE BOOLEAN) :
         /\ client' = IF ok THEN "destroyed" ELSE client
         /\ connected' = IF ok THEN FALSE ELSE connected
    /\ cio' = [cio EXCEPT ![t] = NoOp]
    /\ cpc' = [cpc EXCEPT ![t] = "cl_shm"]
    /\ UNCHANGED <<codec, parse, running, lock, thread, shm, mv, last_len, db,
                   lpc, lio, last_values, values, cop, cret, cchg, cbuf, calls, hist>>

(* lines 417-420: close the segment; the AttributeError of self.shm None  *)
(* is caught                                                              *)
CloseShm(t) ==
    /\ cpc[t] = "cl_shm"
    /\ shm' = IF shm = "open" THEN "closed" ELSE shm
    /\ cpc' = [cpc EXCEPT ![t] = "cl_unlink"]
    /\ UNCHANGED <<codec, parse, running, lock, thread, client, connected, mv, last_len, db,
                   lpc, lio, last_values, values, cop, cio, cret, cchg, cbuf, calls, hist>>

(* lines 421-425: unlink the segment and reset self.shm; with self.shm    *)
(* None the AttributeError of self.shm.unlink() is not caught             *)
CloseUnlink(t) ==
    /\ cpc[t] = "cl_unlink"
    /\ Return(t, IF shm = "none" THEN "raised" ELSE "none")
    /\ shm' = "none"
    /\ mv' = Zeros(ShmSize)
    /\ UNCHANGED <<codec, parse, running, lock, thread, client, connected, last_len, db,
                   lpc, lio, last_values, values, cop, cio, cchg, cbuf, calls, hist>>

---------------------------------------------------------------------------
(* _logging_loop, run by each thread start_logging created *)

(* a loop that does not test the flag: not what the code does *)
LoopWhileForever(i) ==
    /\ lpc[i] = "l_while"
    /\ lpc' = [lpc EXCEPT ![i] = "l_lock"]
    /\ hist' = [hist EXCEPT !.loop[i].err = "none", !.loop[i].disc = 0, !.loop[i].conn = 0]
    /\ UNCHANGED <<codec, parse, running, lock, thread, client, connected, shm, mv, last_len, db,
                   lio, last_values, values, cpc, cop, cio, cret, cchg, cbuf, calls>>

(* line 253: the test of self.running; a new cycle begins or the thread ends *)
LoopWhile(i) ==
    /\ lpc[i] = "l_while"
    /\ lpc' = [lpc EXCEPT ![i] = IF running THEN "l_lock" ELSE "done"]
    /\ hist' = [hist EXCEPT !.loop[i].err = "none", !.loop[i].disc = 0, !.loop[i].conn = 0]
    /\ UNCHANGED <<codec, parse, running, lock, thread, client, connected, shm, mv, last_len, db,
                   lio, last_values, values, cpc, cop, cio, cret, cchg, cbuf, calls>>

(* lines 256-257: take the lock and call db_read *)
LoopLock(i) ==
    /\ lpc[i] = "l_lock"
    /\ lock = Free
    /\ lock' = LoopId(i)
    /\ lio' = [lio EXCEPT ![i] = Issue("db_read")]
    /\ lpc' = [lpc EXCEPT ![i] = "l_read"]
    /\ UNCHANGED <<codec, parse, running, thread, client, connected, shm, mv, last_len, db,
                   last_values, values, cpc, cop, cio, cret, cchg, cbuf, calls, hist>>

(* lines 265-269: an error whose text has "Job pending" or "CLI :": sleep, continue *)
LoopBusy(i, h) ==
    /\ lpc' = [lpc EXCEPT ![i] = "l_while"]
    /\ lio' = [lio EXCEPT ![i] = NoOp]
    /\ hist' = [h EXCEPT !.loop[i].run = "none", !.loop[i].pubs = 0]

(* an error that leaves the loop and ends the thread: not what the code does *)
LoopErrorEscapes(i, h) ==
    /\ lpc' = [lpc EXCEPT ![i] = "done"]
    /\ lio' = [lio EXCEPT ![i] = NoOp]
    /\ hist' = [h EXCEPT !.loop[i].run = "none", !.loop[i].pubs = 0]

(* lines 265-271: any other error: call disconnect *)
LoopFailed(i, h) ==
    /\ lpc' = [lpc EXCEPT ![i] = "l_disc"]
    /\ lio' = [lio EXCEPT ![i] = Issue("disconnect")]
    /\ hist' = [h EXCEPT !.loop[i].disc = Sat(@), !.loop[i].run = "none", !.loop[i].pubs = 0]

(* line 258: decode what db_read returned *)
LoopDecoded(i, buf) ==
    LET dec == extract_data(buf, data_struct)
    IN  IF dec.ok
        THEN /\ values' = [values EXCEPT ![i] = dec.val]
             /\ lpc' = [lpc EXCEPT ![i] = "l_cmp"]
             /\ lio' = [lio EXCEPT ![i] = NoOp]
             /\ hist' = [hist EXCEPT !.loop[i].run = "clean",
                                     !.loop[i].pubs = IF hist.loop[i].run = "clean" THEN @ ELSE 0]
        ELSE LoopFailed(i, [hist EXCEPT !.loop[i].err = "decode"]) /\ UNCHANGED values

(* taking every error for a transient one: not what the code does *)
EveryErrorTransient(out) == out # "ok"

(* line 267: the text of the error has "Job pending" or "CLI :" *)
IsTransient(out) == out = "busy"

(* lines 257-271: db_read returns or raises; the lock is released either  *)
(* way. The history keeps how the call ended.                             *)
LoopRead(i) ==
    /\ lpc[i] = "l_read"
    /\ \E out \in CallOutcomes(lio[i]) :
         LET h == [hist EXCEPT !.loop[i].err = out]
         IN  IF out = "ok" THEN LoopDecoded(i, db)
             ELSE IF IsTransient(out) THEN LoopBusy(i, h) /\ UNCHANGED values
             ELSE LoopFailed(i, h) /\ UNCHANGED values
    /\ lock' = Free
    /\ UNCHANGED <<codec, parse, running, thread, client, connected, shm, mv, last_len, db,
                   last_values, cpc, cop, cio, cret, cchg, cbuf, calls>>

(* whether publishing payload leaves a byte of the previous payload to clear *)
Shrinks(region, len, payload) ==
    UpdateSharedLen(payload) < len /\ region[UpdateSharedLen(payload) + 1] # 0

(* lines 261-264 and 284-287: publish when the snapshot differs, then sleep *)
(* the rest of the period. _update_shared returns at once when self.shm is *)
(* None; on a closed segment self.shm.buf is None and line 235 raises,     *)
(* which the loop's except branch takes for an error that is not transient *)
LoopPublish(i) ==
    /\ lpc[i] = "l_cmp"
    /\ IF ValuesDiffer(values[i], last_values[i]) /\ shm = "closed"
       THEN /\ LoopFailed(i, [hist EXCEPT !.loop[i].err = "publish"])
            /\ UNCHANGED <<mv, last_len, last_values>>
       ELSE /\ IF ValuesDiffer(values[i], last_values[i])
               THEN /\ LET r == _update_shared(mv, last_len, json_dumps(values[i], data_struct))
                       IN  /\ mv' = IF shm = "open" THEN r.mv ELSE mv
                           /\ last_len' = IF shm = "open" THEN r.last_len ELSE last_len
                    /\ hist' = [hist EXCEPT !.loop[i].pubs = IF shm = "open" THEN Sat(@) ELSE @,
                                            !.shrink = IF shm = "open"
                                                       THEN Shrinks(mv, last_len, json_dumps(values[i], data_struct))
                                                       ELSE @]
                    /\ last_values' = [last_values EXCEPT ![i] = values[i]]
               ELSE UNCHANGED <<mv, last_len, hist, last_values>>
            /\ lpc' = [lpc EXCEPT ![i] = "l_while"]
            /\ UNCHANGED lio
    /\ values' = [values EXCEPT ![i] = <<>>]
    /\ UNCHANGED <<codec, parse, running, lock, thread, client, connected, shm, db,
                   cpc, cop, cio, cret, cchg, cbuf, calls>>

(* lines 271-276: disconnect returns or raises; sleep; call connect *)
LoopDisconnect(i) ==
    /\ lpc[i] = "l_disc"
    /\ connected' = IF lio[i] = NoOp THEN connected ELSE FALSE
    /\ lio' = [lio EXCEPT ![i] = Issue("connect")]
    /\ hist' = [hist EXCEPT !.loop[i].conn = Sat(@)]
    /\ lpc' = [lpc EXCEPT ![i] = "l_conn"]
    /\ UNCHANGED <<codec, parse, running, lock, thread, client, shm, mv, last_len, db,
                   last_values, values, cpc, cop, cio, cret, cchg, cbuf, calls>>

(* lines 276-279: connect returns, or raises and the loop sleeps; continue *)
LoopConnect(i) ==
    /\ lpc[i] = "l_conn"
    /\ \E ok \in (IF lio[i] = NoOp \/ client # "live" THEN {FALSE} ELSE BOOLEAN) :
         connected' = IF ok THEN TRUE ELSE connected
    /\ lio' = [lio EXCEPT ![i] = NoOp]
    /\ lpc' = [lpc EXCEPT ![i] = "l_while"]
    /\ UNCHANGED <<codec, parse, running, lock, thread, client, shm, mv, last_len, db,
                   last_values, values, cpc, cop, cio, cret, cchg, cbuf, calls, hist>>

(* the device's program stores another record in the block *)
PlcUpdate ==
    /\ \E f \in PlcFrames \ {db} : db' = f
    /\ hist' = RecordChanged(hist)
    /\ UNCHANGED <<codec, parse, running, lock, thread, client, connected, shm, mv, last_len,
                   lpc, lio, last_values, values, cpc, cop, cio, cret, cchg, cbuf, calls>>

EngineNext ==
    \/ \E t \in Callers : ConnectBegin(t)
    \/ \E t \in Callers : ConnectFirst(t)
    \/ \E t \in Callers : ConnectRetry(t)
    \/ \E t \in Callers : StartCheck(t)
    \/ \E t \in Callers : StartThread(t)
    \/ \E t \in Callers : StopClear(t)
    \/ \E t \in Callers : StopJoin(t)
    \/ \E t \in Callers : WriteBegin(t)
    \/ \E t \in Callers : WriteLock(t)
    \/ \E t \in Callers : WriteRead(t)
    \/ \E t \in Callers : WriteBack(t)
    \/ \E t \in Callers : CloseBegin(t)
    \/ \E t \in Callers : CloseJoin(t)
    \/ \E t \in Callers : CloseDisconnect(t)
    \/ \E t \in Callers : CloseShm(t)
    \/ \E t \in Callers : CloseUnlink(t)
    \/ \E i \in Loops : LoopWhile(i)
    \/ \E i \in Loops : LoopLock(i)
    \/ \E i \in Loops : LoopRead(i)
    \/ \E i \in Loops : LoopPublish(i)
    \/ \E i \in Loops : LoopDisconnect(i)
    \/ \E i \in Loops : LoopConnect(i)
    \/ PlcUpdate

Spec == EngineInit /\ [][EngineNext]_vars

(* a step of the background thread i *)
LoopStep(i) ==
    \/ LoopWhile(i)
    \/ LoopLock(i)
    \/ LoopRead(i)
    \/ LoopPublish(i)
    \/ LoopDisconnect(i)
    \/ LoopConnect(i)

(* the return of the transport call the caller t has in flight under the lock *)
CallReturns(t) ==
    \/ WriteRead(t)
    \/ WriteBack(t)

(* The engine under the scheduling the threads get: a background thread   *)
(* that can take a step takes one, and a transport call that is in flight *)
(* returns.                                                               *)
Fairness ==
    /\ \A i \in Loops : WF_vars(LoopStep(i))
    /\ \A t \in Callers : WF_vars(CallReturns(t))

FairSpec == EngineInit /\ [][EngineNext]_vars /\ Fairness

(* The engine when, besides, the lock is handed out fairly: a caller that  *)
(* waits for the lock while it is free again and again gets it.            *)
LockFairness == \A t \in Callers : SF_vars(WriteLock(t))

FairLockSpec == EngineInit /\ [][EngineNext]_vars /\ Fairness /\ LockFairness

---------------------------------------------------------------------------
(* The codec alone: one change patched into a frame as write_to_plc does   *)
(* it, and the patched frame decoded by extract_data.                      *)

(* the map parse_siemens_db gives for a block with a field of every type   *)
codec_struct ==
    <<Field("x0", "bool", 0, 0), Field("x1", "bool", 0, 1), Field("x7", "bool", 0, 7),
      Field("by", "byte", 1, 0), Field("w", "word", 2, 0), Field("i", "int", 4, 0),
      Field("dw", "dword", 6, 0), Field("di", "dint", 10, 0), Field("re", "real", 14, 0),
      Field("t", "time", 18, 0)>>
codec_len == 22

(* frames: every value of the byte the Bool fields share, the other bytes  *)
(* following from it                                                       *)
CodecFrames ==
    { [k \in 1..codec_len |-> IF k = 1 THEN n ELSE (n * 7 + k * 37) % 256] : n \in 0..255 }

(* the values passed for a field of type t: the ends and the middle of its *)
(* range, and values outside it                                            *)
CodecValues(t) ==
    CASE t = "bool" -> {PyBool(TRUE), PyBool(FALSE)}
      [] t = "byte" -> {PyInt(0), PyInt(1), PyInt(127), PyInt(128), PyInt(255), PyInt(256), PyInt(-1)}
      [] t = "word" -> {PyInt(0), PyInt(255), PyInt(256), PyInt(32768), PyInt(65535), PyInt(65536)}
      [] t = "int" -> {PyInt(-32768), PyInt(-1), PyInt(0), PyInt(255), PyInt(32767), PyInt(40000)}
      [] t = "dword" -> {PyInt(0), PyInt(65536), PyInt(2147483647), PyU32(32768, 0),
                        PyU32(65535, 65535), PyInt(-1)}
      [] t = "dint" -> {PyInt(-2147483647), PyInt(-1), PyInt(0), PyInt(65536), PyInt(2147483647),
                       PyU32(32768, 0)}
      [] t = "time" -> {PyInt(-2147483647), PyInt(-1), PyInt(0), PyInt(86400000), PyU32(32768, 0)}
      [] t = "real" -> {PyDyadic(0, 0), PyDyadic(3, -1), PyDyadic(-5, -1), PyDyadic(1, -5),
                       PyDyadic(-1, -14), PyDyadic(16777215, 0), PyDyadic(16777216, 0),
                       PyDyadic(16777217, 0), PyDyadic(16777219, 0), PyDyadic(33554433, -24),
                       PyDyadic(1, 128), PyInf(1), PyNaN, PyNone}

CodecChanges ==
    UNION { { <<codec_struct[j].name, v>> : v \in CodecValues(codec_struct[j].type) } :
            j \in 1..Len(codec_struct) }

CodecInit ==
    /\ Constructed
    /\ db = Zeros(total_len)
    /\ parse = ParseIdle
    /\ codec \in { [CodecIdle EXCEPT !.phase = "frame", !.frame = f] : f \in CodecFrames }

(* lines 361-383 on a frame db_read returned, for a set of one change *)
CodecPatch ==
    /\ codec.phase = "frame"
    /\ \E chg \in CodecChanges :
         codec' = [codec EXCEPT !.phase = "patched", !.name = chg[1], !.value = chg[2],
                                !.patched = ApplyChanges(codec.frame, codec_struct, <<chg>>)]
    /\ UNCHANGED <<evars, parse>>

(* extract_data on the patched frame *)
CodecDecode ==
    /\ codec.phase = "patched"
    /\ codec.patched.ok
    /\ codec' = [codec EXCEPT !.phase = "decoded",
                              !.decoded = extract_data(codec.patched.val, codec_struct)]
    /\ UNCHANGED <<evars, parse>>

CodecNext == CodecPatch \/ CodecDecode

SpecCodec == CodecInit /\ [][CodecNext]_vars

---------------------------------------------------------------------------
(* Properties of the engine *)

(* the transport calls in flight that the polling loops, write_to_plc and  *)
(* close_connection issued                                                 *)
InFlight ==
    Cardinality({i \in Loops : lio[i] # NoOp})
    + Cardinality({t \in Callers : cop[t] \in {"write", "close"} /\ cio[t] # NoOp})

(* C1: with one polling loop and a live client, at most one transport      *)
(* call of the loop, of write_to_plc and of close_connection is in flight  *)
(* at any time.                                                            *)
C1_OneTransportCallInFlight ==
    (client = "live" /\ Cardinality(Born) <= 1) => InFlight <= 1

(* C2: while the device's record stays as a loop read it, over any number  *)
(* of successful cycles, the loop publishes at most once.                  *)
C2_OnePublishWhileUnchanged ==
    \A i \in Loops : hist.loop[i].run = "clean" => hist.loop[i].pubs <= 1

(* C3: every byte of the shared region at or beyond the length of the      *)
(* latest payload is zero.                                                 *)
C3_TailIsZero ==
    \A k \in 1..ShmSize : k > last_len => mv[k] = 0

(* a publish has just cut a longer payload down, and its last byte is the  *)
(* last non-zero byte of the region                                        *)
C3_Shrunk ==
    /\ hist.shrink
    /\ shm = "open"
    /\ last_len > 0
    /\ last_len < ShmSize
    /\ mv[last_len] # 0

(* C4: a cycle that ended on a transient-busy error called neither         *)
(* disconnect nor connect; a cycle that ended on any other error called    *)
(* disconnect once and then connect once before the next cycle begins.     *)
C4_BackoffOrReconnectOnce ==
    \A i \in Loops :
        LET h == hist.loop[i] IN
        /\ h.err = "busy" => (lpc[i] = "l_while" /\ h.disc = 0 /\ h.conn = 0)
        /\ h.err \in {"fail", "decode", "publish"} =>
             /\ lpc[i] \in {"l_disc", "l_conn", "l_while"}
             /\ h.disc = 1
             /\ h.conn = (IF lpc[i] = "l_disc" THEN 0 ELSE 1)
        /\ lpc[i] \in {"l_disc", "l_conn"} => h.err \in {"fail", "decode", "publish"}

(* a transport error that is not transient, on a live client, was answered *)
(* by one disconnect and one connect, and the next cycle is about to begin *)
C4_Reconnected ==
    \E i \in Loops :
        /\ lpc[i] = "l_while"
        /\ client = "live"
        /\ hist.loop[i].err = "fail"
        /\ hist.loop[i].disc = 1
        /\ hist.loop[i].conn = 1

(* C5: a call of write_to_plc issues at most one read and at most one      *)
(* write, the write only after the read returned; when the read fails the  *)
(* call returns false and issues no write.                                 *)
C5_OneReadOneWrite ==
    \A t \in Callers :
        LET h == hist.call[t] IN
        cop[t] = "write" =>
            /\ h.reads <= 1
            /\ h.writes <= 1
            /\ h.writes = 1 => (h.reads = 1 /\ cpc[t] \in {"w_write", "idle"})
            /\ cpc[t] = "w_read" => h.writes = 0
            /\ h.fail = "read" => (cpc[t] = "idle" /\ cret[t] = "false" /\ h.writes = 0)

(* a call whose read was issued and failed has returned false *)
C5_ReadFailed ==
    \E t \in Callers :
        /\ cop[t] = "write"
        /\ cpc[t] = "idle"
        /\ hist.call[t].fail = "read"
        /\ hist.call[t].reads = 1
        /\ hist.call[t].writes = 0
        /\ cret[t] = "false"

(* every change of the set that names a field can be encoded *)
Encodable(changes) ==
    \A j \in 1..Len(changes) :
        LET i == IndexOf(data_struct, changes[j][1])
        IN  i = 0 \/ ApplyOne(Zeros(total_len), data_struct[i], changes[j][2]).ok

(* C6: write_to_plc returns true or false, and false whenever the read,    *)
(* an encoder or the write-back failed; a write is issued only for a set   *)
(* all of whose changes encode, so a set with one failing change writes    *)
(* nothing.                                                                *)
C6_FalseOnFailureNothingWritten ==
    \A t \in Callers :
        LET h == hist.call[t] IN
        cop[t] = "write" =>
            /\ cpc[t] = "idle" => cret[t] \in {"true", "false"}
            /\ (cpc[t] = "idle" /\ h.fail # "none") => cret[t] = "false"
            /\ h.fail = "encode" => (cpc[t] = "idle" /\ h.writes = 0)
            /\ cpc[t] = "w_write" => Encodable(cchg[t])

(* a call whose read succeeded and whose change set failed to encode has   *)
(* returned false without a write                                          *)
C6_EncodeFailed ==
    \E t \in Callers :
        /\ cop[t] = "write"
        /\ cpc[t] = "idle"
        /\ hist.call[t].fail = "encode"
        /\ hist.call[t].reads = 1
        /\ hist.call[t].writes = 0
        /\ cret[t] = "false"

(* C7: at most one background polling loop is alive at any time.           *)
C7_AtMostOneLoop ==
    Cardinality(Alive) <= 1

(* C8: a loop that finds the flag cleared ends and begins no further       *)
(* cycle; the join of stop_logging can return wherever the loops are, and  *)
(* its return leaves every loop where it is; and whenever the flag is      *)
(* cleared, every loop eventually ends unless the flag is set again.       *)
C8_StopEndsTheLoop ==
    /\ [][\A i \in Loops :
            /\ lpc[i] = "done" => lpc'[i] = "done"
            /\ (lpc[i] = "l_while" /\ ~running /\ lpc'[i] # lpc[i]) => lpc'[i] = "done"]_vars
    /\ [][\A t \in Callers :
            (cpc[t] = "st_join" /\ cpc'[t] = "idle") => (lpc' = lpc /\ lio' = lio)]_vars
    /\ [](\A t \in Callers : cpc[t] = "st_join" => ENABLED StopJoin(t))
    /\ (~running) ~> (running \/ Alive = {})

(* stop_logging returned on its timeout, and the loop has ended since *)
C8_ExpiredThenEnded ==
    /\ cop[1] = "stop"
    /\ cpc[1] = "idle"
    /\ hist.call[1].expired
    /\ ~running
    /\ Born # {}
    /\ Alive = {}

---------------------------------------------------------------------------
(* Properties of the codec *)

CodecField == codec_struct[IndexOf(codec_struct, codec.name)]

(* the values of a type: what the encoder of the type accepts, finite for  *)
(* a Real                                                                  *)
InRange(t, v) ==
    CASE t = "bool" -> v.k = "bool"
      [] t = "byte" -> v.k = "int" /\ v.v >= 0 /\ v.v <= 255
      [] t = "word" -> v.k = "int" /\ v.v >= 0 /\ v.v <= 65535
      [] t = "int" -> v.k = "int" /\ v.v >= -32768 /\ v.v <= 32767
      [] t = "dword" -> (v.k = "int" /\ v.v >= 0) \/ v.k = "u32"
      [] t = "dint" -> v.k = "int"
      [] t = "time" -> v.k = "int"
      [] t = "real" -> v.k = "dyadic" /\ ToSingle(v.v[1], v.v[2])[3] <= 127

(* the single-precision float nearest to the float v *)
SingleOf(v) ==
    LET sg == ToSingle(v.v[1], v.v[2]) IN PyDyadic(sg[1] * sg[2], sg[3] - 23)

(* the decoded value of the written field *)
CodecResult == codec.decoded.val[IndexOf(codec_struct, codec.name)]

(* C9 as stated: the written value comes back, a Real rounded to four      *)
(* decimals.                                                               *)
C9_RoundTrip ==
    (codec.phase = "decoded" /\ InRange(CodecField.type, codec.value)) =>
        /\ codec.decoded.ok
        /\ CodecResult = (IF CodecField.type = "real" THEN Round4(codec.value) ELSE codec.value)

(* C9: a value in the range of its field's type is written without an      *)
(* error and comes back from the patched frame: as it is for the integer   *)
(* types and Bool, and for a Real as the nearest single-precision float    *)
(* rounded to four decimals.                                               *)
C9_RoundTripSingle ==
    (codec.phase \in {"patched", "decoded"} /\ InRange(CodecField.type, codec.value)) =>
        /\ codec.phase = "patched" => codec.patched.ok
        /\ codec.phase = "decoded" =>
             /\ codec.decoded.ok
             /\ CodecResult = (IF CodecField.type = "real"
                               THEN Round4(SingleOf(codec.value)) ELSE codec.value)

(* 16777217.0 was written to the Real and 16777216.0 came back *)
C9_SingleLosesDigits ==
    /\ codec.phase = "decoded"
    /\ codec.name = "re"
    /\ codec.value = PyDyadic(16777217, 0)
    /\ CodecResult = PyFloat(1, 16777216, 0)

(* C10: writing a Bool leaves every other bit of its byte, hence the       *)
(* decoded value of every other Bool of the byte, and every other byte of  *)
(* the frame as they were.                                                 *)
C10_OtherBitsKept ==
    (codec.phase \in {"patched", "decoded"} /\ CodecField.type = "bool") =>
        /\ codec.patched.ok
        /\ Len(codec.patched.val) = Len(codec.frame)
        /\ \A k \in 1..Len(codec.frame) :
             k # CodecField.offset + 1 => codec.patched.val[k] = codec.frame[k]
        /\ \A bit \in 0..7 :
             bit # CodecField.bit =>
                 BitOf(codec.patched.val[CodecField.offset + 1], bit)
                     = BitOf(codec.frame[CodecField.offset + 1], bit)
        /\ codec.phase = "decoded" =>
             /\ codec.decoded.ok
             /\ \A j \in 1..Len(codec_struct) :
                  (codec_struct[j].type = "bool" /\ codec_struct[j].name # codec.name) =>
                      codec.decoded.val[j] = extract_data(codec.frame, codec_struct).val[j]

(* the Bool at bit 1 was cleared in a byte whose bits 0 and 7 are set *)
C10_ClearedBetweenSetBits ==
    /\ codec.phase = "decoded"
    /\ codec.name = "x1"
    /\ codec.value = PyBool(FALSE)
    /\ codec.frame[1] = 131
    /\ codec.patched.val[1] = 129
    /\ codec.decoded.val[1] = PyBool(TRUE)
    /\ codec.decoded.val[3] = PyBool(TRUE)

---------------------------------------------------------------------------
(* extract_data on a frame shorter than the map declares: db_read returned *)
(* the first n bytes of a record.                                          *)

ShortInit ==
    /\ Constructed
    /\ db = Zeros(total_len)
    /\ parse = ParseIdle
    /\ codec \in { [CodecIdle EXCEPT !.phase = "cut", !.frame = SubSeq(f, 1, n)] :
                   f \in CodecFrames, n \in 0..codec_len }

(* extract_data on the short frame *)
ShortDecode ==
    /\ codec.phase = "cut"
    /\ codec' = [codec EXCEPT !.phase = "decoded",
                              !.decoded = extract_data(codec.frame, codec_struct)]
    /\ UNCHANGED <<evars, parse>>

ShortNext == ShortDecode

SpecShort == ShortInit /\ [][ShortNext]_vars

(* the field's bytes lie inside the frame *)
Inside(meta, frame) == meta.offset + meta.size <= Len(frame)

(* C11: extract_data on a frame of any length returns: a field whose bytes *)
(* lie inside the frame has its value, every other field is None.          *)
C11_ShortFrameDecodes ==
    codec.phase = "decoded" =>
        /\ codec.decoded.ok
        /\ \A j \in 1..Len(codec_struct) :
             codec.decoded.val[j] =
                 (IF Inside(codec_struct[j], codec.frame)
                  THEN DecodeField(codec.frame, codec_struct[j]).val
                  ELSE PyNone)

---------------------------------------------------------------------------
(* parse_siemens_db. A blueprint is modelled as what re.findall returns    *)
(* for it: the declarations <<name, type>> of the STRUCT grammar, or the   *)
(* rows <<name, type, byte, bit>> of the tabular grammar, types in lower   *)
(* case. The map is the sequence of its fields in the dict's order.        *)

(* types: the alignment of each type *)
TypeAlign(t) == IF t = "bool" THEN 0 ELSE IF t = "byte" THEN 1 ELSE 2

(* dtype_key in types *)
Recognized(t) == t \in {"bool", "byte", "word", "int", "dword", "dint", "real", "time"}

(* data[name] = field: a new name is appended, a known one keeps its place *)
Put(data, field) ==
    IF IndexOf(data, field.name) = 0 THEN Append(data, field)
    ELSE [data EXCEPT ![IndexOf(data, field.name)] = field]

(* lines 101-110 with the cursor left open: not what the code does *)
StructPlaceOpenByte(dtype, byte_idx, bit_idx) ==
    IF dtype = "bool"
    THEN (IF bit_idx > 7 THEN <<byte_idx + 1, 0>> ELSE <<byte_idx, bit_idx>>)
    ELSE IF TypeAlign(dtype) > 1 /\ byte_idx % 2 # 0
         THEN <<byte_idx + 1, 0>> ELSE <<byte_idx, 0>>

(* lines 101-110: where the cursor <<byte_idx, bit_idx>> puts a field *)
StructPlace(dtype, byte_idx, bit_idx) ==
    IF dtype = "bool"
    THEN (IF bit_idx > 7 THEN <<byte_idx + 1, 0>> ELSE <<byte_idx, bit_idx>>)
    ELSE LET closed == IF bit_idx > 0 THEN byte_idx + 1 ELSE byte_idx
         IN  IF TypeAlign(dtype) > 1 /\ closed % 2 # 0
             THEN <<closed + 1, 0>> ELSE <<closed, 0>>

(* lines 93-118: the loop over the declarations *)
RECURSIVE StructLoop(_, _, _, _)
StructLoop(text, byte_idx, bit_idx, data) ==
    IF text = <<>> THEN data
    ELSE LET name == Head(text)[1]
             dtype == Head(text)[2]
         IN  IF ~Recognized(dtype) THEN StructLoop(Tail(text), byte_idx, bit_idx, data)
             ELSE LET at == StructPlace(dtype, byte_idx, bit_idx)
                      placed == Put(data, Field(name, dtype, at[1], at[2]))
                  IN  IF dtype = "bool"
                      THEN StructLoop(Tail(text), at[1], at[2] + 1, placed)
                      ELSE StructLoop(Tail(text), at[1] + TypeSize(dtype), at[2], placed)

(* lines 130-139: the loop over the rows *)
RECURSIVE TableLoop(_, _)
TableLoop(text, data) ==
    IF text = <<>> THEN data
    ELSE LET row == Head(text)
         IN  IF ~Recognized(row[2]) THEN TableLoop(Tail(text), data)
             ELSE TableLoop(Tail(text), Put(data, Field(row[1], row[2], row[3], row[4])))

(* line 146: max(data.values(), key = offset + 0.1 * bit), the first of    *)
(* the fields with the greatest key; the keys are compared as              *)
(* 10 * offset + bit, which orders them as the floats do for bit < 30      *)
LastItem(data) ==
    LET key(j) == 10 * data[j].offset + data[j].bit
        best == CHOOSE j \in 1..Len(data) :
                    /\ \A k \in 1..Len(data) : key(k) <= key(j)
                    /\ \A k \in 1..(j - 1) : key(k) < key(j)
    IN  data[best]

(* lines 142-153: the total length *)
TotalSize(data) ==
    IF data = <<>> THEN 0
    ELSE LET last_item == LastItem(data)
             total_size == last_item.offset
                           + (IF last_item.type = "bool" THEN 1 ELSE last_item.size)
         IN  IF total_size % 2 # 0 THEN total_size + 1 ELSE total_size

(* parse_siemens_db on a blueprint of either grammar: (total_len, data) *)
parse_siemens_db(grammar, text) ==
    LET data == IF grammar = "struct" THEN StructLoop(text, 0, 0, <<>>)
                ELSE TableLoop(text, <<>>)
    IN  [total |-> TotalSize(data), data |-> data]

(* The blueprints of the parser's specification: a run of Bool             *)
(* declarations followed by a few declarations of any type, and tables of  *)
(* a few rows with stated offsets. "string" is a type the table lacks.     *)
MaxBools == 9
MaxTail == 3
MaxRows == 2
FieldNames == <<"v1", "v2", "v3", "v4", "v5", "v6", "v7", "v8",
                "v9", "v10", "v11", "v12", "v13", "v14", "v15", "v16">>
SeqsUpTo(S, n) == UNION { [1..k -> S] : k \in 0..n }
BoolRun(k) == [i \in 1..k |-> "bool"]
StructTypes == {"bool", "byte", "int", "real", "string"}
StructTexts ==
    { [i \in 1..Len(ts) |-> <<FieldNames[i], ts[i]>>] :
        ts \in { BoolRun(k) \o tl : k \in 0..MaxBools, tl \in SeqsUpTo(StructTypes, MaxTail) } }
TableTypes == {"bool", "byte", "int", "dword", "string"}
TableCells == TableTypes \X {0, 1, 2, 4} \X {0, 1, 9}
TableTexts ==
    { [i \in 1..Len(rs) |-> <<FieldNames[i], rs[i][1], rs[i][2], rs[i][3]>>] :
        rs \in SeqsUpTo(TableCells, MaxRows) }

ParseInit ==
    /\ Constructed
    /\ db = Zeros(total_len)
    /\ codec = CodecIdle
    /\ parse \in { [ParseIdle EXCEPT !.phase = "text", !.grammar = "struct", !.text = t] :
                   t \in StructTexts }
            \cup { [ParseIdle EXCEPT !.phase = "text", !.grammar = "static", !.text = t] :
                   t \in TableTexts }

(* a blueprint holding "STRUCT" *)
ParseStruct ==
    /\ parse.phase = "text"
    /\ parse.grammar = "struct"
    /\ parse' = [parse EXCEPT !.phase = "parsed",
                              !.total = parse_siemens_db("struct", parse.text).total,
                              !.data = parse_siemens_db("struct", parse.text).data]
    /\ UNCHANGED <<evars, codec>>

(* a blueprint holding "Static" and no "STRUCT" *)
ParseTable ==
    /\ parse.phase = "text"
    /\ parse.grammar = "static"
    /\ parse' = [parse EXCEPT !.phase = "parsed",
                              !.total = parse_siemens_db("static", parse.text).total,
                              !.data = parse_siemens_db("static", parse.text).data]
    /\ UNCHANGED <<evars, codec>>

ParseNext == ParseStruct \/ ParseTable

SpecParse == ParseInit /\ [][ParseNext]_vars

RecognizedOf(text) == SelectSeq(text, LAMBDA d : Recognized(d[2]))
TypesOf(text) == [i \in 1..Len(text) |-> text[i][2]]
Parsed(g) == parse.phase = "parsed" /\ parse.grammar = g
Places(data) == [j \in 1..Len(data) |-> <<data[j].type, data[j].offset, data[j].bit>>]

(* C12: in the map of a STRUCT blueprint the recognized declarations are   *)
(* laid out in order from 0.0: a Bool after a Bool takes the next bit of   *)
(* the same byte, and bit 0 of the next byte after bit 7; any other field  *)
(* starts at the first byte after the previous field, moved up to an even  *)
(* offset for the word-aligned types; unrecognized declarations take no     *)
(* place. [Bool, Bool, Int, Bool] gives 0.0, 0.1, 2, 4.0 and length 6.     *)
C12_StructLayout ==
    Parsed("struct") =>
        LET r == RecognizedOf(parse.text)
            d == parse.data
        IN  /\ Len(d) = Len(r)
            /\ \A j \in 1..Len(d) :
                 /\ d[j].name = r[j][1] /\ d[j].type = r[j][2]
                 /\ d[j].bit \in 0..7
                 /\ d[j].type # "bool" => d[j].bit = 0
                 /\ d[j].type \notin {"bool", "byte"} => d[j].offset % 2 = 0
            /\ Len(d) > 0 => d[1].offset = 0 /\ d[1].bit = 0
            /\ \A j \in 1..(Len(d) - 1) :
                 LET p == d[j]
                     n == d[j + 1]
                     free == p.offset + (IF p.type = "bool" THEN 1 ELSE p.size)
                 IN  IF p.type = "bool" /\ n.type = "bool"
                     THEN IF p.bit < 7 THEN n.offset = p.offset /\ n.bit = p.bit + 1
                          ELSE n.offset = p.offset + 1 /\ n.bit = 0
                     ELSE n.offset = (IF n.type \in {"bool", "byte"} \/ free % 2 = 0
                                      THEN free ELSE free + 1)
            /\ TypesOf(parse.text) = <<"bool", "bool", "int", "bool">> =>
                 /\ Places(d) = << <<"bool", 0, 0>>, <<"bool", 0, 1>>,
                                   <<"int", 2, 0>>, <<"bool", 4, 0>> >>
                 /\ parse.total = 6

C12_BoolBoolIntBool ==
    /\ Parsed("struct")
    /\ TypesOf(parse.text) = <<"bool", "bool", "int", "bool">>
    /\ Places(parse.data) = << <<"bool", 0, 0>>, <<"bool", 0, 1>>,
                               <<"int", 2, 0>>, <<"bool", 4, 0>> >>
    /\ parse.total = 6

(* the bytes of two fields meet, other than two Bools at different bits *)
Overlap(f, g) ==
    /\ f.offset < g.offset + g.size
    /\ g.offset < f.offset + f.size
    /\ ~(f.type = "bool" /\ g.type = "bool" /\ f.bit # g.bit)
MapInvariant(data) ==
    /\ \A j \in 1..Len(data) : data[j].bit \in 0..7
    /\ \A j, k \in 1..Len(data) : j # k => ~Overlap(data[j], data[k])

(* C13: every map the parser returns, from either grammar, has all bit     *)
(* offsets in 0..7 and no two fields on the same bytes, except Bools at    *)
(* different bits of one byte.                                             *)
C13_MapInvariant ==
    parse.phase = "parsed" => MapInvariant(parse.data)

RECURSIVE MaxEnd(_)
MaxEnd(data) ==
    IF data = <<>> THEN 0
    ELSE LET e == Head(data).offset + Head(data).size
             m == MaxEnd(Tail(data))
         IN  IF e > m THEN e ELSE m
RoundEven(n) == IF n % 2 = 0 THEN n ELSE n + 1

(* C14: the total length of every map, from either grammar, is the         *)
(* greatest offset + size of its fields rounded up to an even number, so   *)
(* it is even and no field ends after it; it is 0 for the empty map.       *)
C14_TotalIsMaxEnd ==
    parse.phase = "parsed" =>
        /\ parse.total = RoundEven(MaxEnd(parse.data))
        /\ parse.total % 2 = 0
        /\ \A j \in 1..Len(parse.data) :
             parse.data[j].offset + parse.data[j].size <= parse.total
        /\ parse.data = <<>> => parse.total = 0

(* C15: a polling thread ends only at the test of the flag, with the flag  *)
(* cleared; with the flag set the test starts a cycle; and a thread in the *)
(* except branch (after a failed read, decode or publish) can always take  *)
(* its next step, from the disconnect to the reconnect and from the        *)
(* reconnect, succeeding or not, back to the test of the flag.             *)
C15_LoopGoesOn ==
    /\ [][\A i \in Loops :
            /\ (lpc[i] # "done" /\ lpc'[i] = "done") => (lpc[i] = "l_while" /\ ~running)
            /\ (lpc[i] = "l_while" /\ lpc'[i] # "l_while" /\ running) => lpc'[i] = "l_lock"
            /\ (lpc[i] = "l_disc" /\ lpc'[i] # "l_disc") => lpc'[i] = "l_conn"
            /\ (lpc[i] = "l_conn" /\ lpc'[i] # "l_conn") => lpc'[i] = "l_while"
            /\ (lpc[i] \in {"l_read", "l_cmp"} /\ lpc'[i] # lpc[i])
                   => lpc'[i] \in {"l_cmp", "l_while", "l_disc"}]_vars
    /\ [](\A i \in Loops : /\ lpc[i] = "l_disc" => ENABLED LoopDisconnect(i)
                           /\ lpc[i] = "l_conn" => ENABLED LoopConnect(i)
                           /\ lpc[i] = "l_while" => ENABLED LoopWhile(i))

C15_BackAfterFailedReconnect ==
    \E i \in Loops :
        /\ running /\ lpc[i] = "l_while"
        /\ hist.loop[i].err = "fail" /\ hist.loop[i].conn = 1
        /\ ~connected

(* the record is one that write_to_plc stored and that differs from every  *)
(* record of the device's program: a write changed it and nothing did since *)
Written == db \notin PlcFrames

(* the region holds the snapshot vals as _update_shared leaves it *)
Published(region, len, vals) ==
    LET payload == json_dumps(vals, data_struct)
        n == UpdateSharedLen(payload)
    IN  /\ len = n
        /\ SubSeq(region, 1, n) = SubSeq(payload, 1, n)

(* C16: no step of write_to_plc changes the shared region or _last_len;    *)
(* and with the flag set, a poll cycle that read the record a write left,  *)
(* unchanged since, ends with the snapshot of that record in the region.   *)
C16_WriteIsPublished ==
    /\ [][(\E t \in Callers : cop[t] = "write" /\ cpc[t] # cpc'[t])
              => UNCHANGED <<mv, last_len>>]_vars
    /\ [][\A i \in Loops :
            (/\ lpc[i] = "l_cmp" /\ lpc'[i] # "l_cmp"
             /\ running /\ Written /\ hist.loop[i].run = "clean")
            => /\ shm' = "open"
               /\ Published(mv', last_len', extract_data(db, data_struct).val)]_vars

(* C17: a connect() that returns True leaves the client connected and a    *)
(* segment in self.shm, on the first attempt and on the retry.             *)
C17_TrueMeansConnectedAndAllocated ==
    [][\A t \in Callers :
         (cpc[t] \in {"c_first", "c_retry"} /\ cpc'[t] = "idle" /\ cret'[t] = "true")
         => (connected' /\ client' = "live" /\ shm' # "none")]_vars

(* C18: a close_connection() that returns has raised nothing and leaves    *)
(* the flag cleared, no polling thread alive, the client disconnected and  *)
(* destroyed, and self.shm None.                                           *)
C18_CloseLeavesNothing ==
    [][\A t \in Callers :
         (cpc[t] = "cl_unlink" /\ cpc'[t] = "idle")
         => /\ cret'[t] # "raised"
            /\ ~running' /\ Alive' = {}
            /\ ~connected' /\ client' # "live"
            /\ shm' = "none"]_vars

(* the states of the machine, for the thread i *)
PollingPcs == {"l_while", "l_lock", "l_read", "l_cmp"}
ReconnectingPcs == {"l_disc", "l_conn"}

(* C19: a polling thread starts only with the client connected; it leaves  *)
(* polling only for the reconnect after a failed transport call, or for    *)
(* its end with the flag cleared; and it leaves the reconnect only for     *)
(* polling.                                                                *)
C19_StateMachine ==
    [][\A i \in Loops :
         /\ (lpc[i] = "unborn" /\ lpc'[i] # "unborn")
                => (connected /\ client = "live" /\ lpc'[i] \in PollingPcs)
         /\ (lpc[i] \in PollingPcs /\ lpc'[i] \notin PollingPcs)
                => \/ lpc'[i] \in ReconnectingPcs /\ hist'.loop[i].err = "fail"
                   \/ lpc'[i] = "done" /\ ~running
         /\ (lpc[i] \in ReconnectingPcs /\ lpc'[i] \notin ReconnectingPcs)
                => lpc'[i] \in PollingPcs]_vars

---------------------------------------------------------------------------
(* _update_shared alone: an engine that allocates its segment and then     *)
(* publishes payloads of every length up to two bytes past the capacity.   *)
(* codec.frame keeps the payload of the last publish and codec.value the   *)
(* high-water mark it found.                                               *)

ShmPayloads ==
    { [i \in 1..n |-> 48 + ((i * k) % 10)] : n \in 0..(ShmSize + 2), k \in 0..3 }

ShmInit ==
    /\ Constructed
    /\ db = Zeros(total_len)
    /\ codec = CodecIdle
    /\ parse = ParseIdle

(* line 302: the segment is allocated, filled with zeros *)
ShmAllocate ==
    /\ shm = "none"
    /\ shm' = "open"
    /\ mv' = Zeros(ShmSize)
    /\ UNCHANGED <<codec, parse, running, lock, thread, client, connected, last_len, db,
                   lpc, lio, last_values, values, cpc, cop, cio, cret, cchg, cbuf, calls, hist>>

(* lines 229-239 *)
ShmPublish ==
    /\ shm = "open"
    /\ \E payload \in ShmPayloads :
         /\ mv' = _update_shared(mv, last_len, payload).mv
         /\ last_len' = _update_shared(mv, last_len, payload).last_len
         /\ codec' = [CodecIdle EXCEPT !.phase = "published", !.frame = payload,
                                       !.value = PyInt(last_len)]
    /\ UNCHANGED <<parse, running, lock, thread, client, connected, shm, db,
                   lpc, lio, last_values, values, cpc, cop, cio, cret, cchg, cbuf, calls, hist>>

ShmNext == ShmAllocate \/ ShmPublish

SpecShm == ShmInit /\ [][ShmNext]_vars

(* C20: _last_len is always in 0..shm_size; and after a publish it is the  *)
(* smaller of the payload's length and shm_size, the region begins with    *)
(* that many bytes of the payload, has kept its size, and no index past    *)
(* the capacity was assigned.                                              *)
C20_PublishWithinCapacity ==
    /\ last_len \in 0..ShmSize
    /\ codec.phase = "published" =>
         /\ last_len = (IF Len(codec.frame) < ShmSize THEN Len(codec.frame) ELSE ShmSize)
         /\ SubSeq(mv, 1, last_len) = SubSeq(codec.frame, 1, last_len)
         /\ Len(mv) = ShmSize
         /\ WrittenIndices(codec.value.v, codec.frame) \subseteq 1..ShmSize

C20_LongPayloadCut ==
    /\ codec.phase = "published"
    /\ Len(codec.frame) = ShmSize + 2
    /\ last_len = ShmSize
    /\ mv = SubSeq(codec.frame, 1, ShmSize)

(* where a caller is inside write_to_plc past the test of its argument *)
WritePcs == {"w_lock", "w_read", "w_write"}

(* C21: a polling thread holds the lock only between taking it and the     *)
(* return of its db_read with the decode, so not while it compares and     *)
(* publishes, sleeps, disconnects or reconnects; a caller holds it only    *)
(* inside the read-patch-write of write_to_plc and never after the call    *)
(* returned, failed or not; a waiting write_to_plc goes on only by taking  *)
(* the lock; and no caller stays inside write_to_plc for ever: every call  *)
(* gets the lock and returns.                                              *)
C21_LockOnlyAroundTransport ==
    /\ [](\A i \in Loops : lock = LoopId(i) <=> lpc[i] = "l_read")
    /\ [](\A t \in Callers : lock = CallerId(t) <=> cpc[t] \in {"w_read", "w_write"})
    /\ [][\A t \in Callers :
            (cpc[t] = "w_lock" /\ cpc'[t] # "w_lock") => lock' = CallerId(t)]_vars
    /\ \A t \in Callers : []<>(cpc[t] \notin WritePcs)

C21_WriterInsideReconnect ==
    \E i \in Loops, t \in Callers :
        /\ lpc[i] = "l_conn"
        /\ cpc[t] = "w_write"
        /\ lock = CallerId(t)

(* bit k of the byte v *)
BitAt(v, k) == (v \div Pow2(k)) % 2

(* bit k of the byte at index j (from 1) of the record belongs to a field  *)
(* of the map that the change set chg names                                *)
Targeted(chg, j, k) ==
    \E c \in 1..Len(chg) :
        /\ IndexOf(data_struct, chg[c][1]) # 0
        /\ LET meta == data_struct[IndexOf(data_struct, chg[c][1])]
           IN  IF meta.type = "bool"
               THEN meta.offset + 1 = j /\ meta.bit = k
               ELSE meta.offset < j /\ j <= meta.offset + meta.size

(* C22: the write-back of a write_to_plc that returns True leaves every    *)
(* bit of the device record outside the fields named in changes as the     *)
(* device held it right before the write-back.                             *)
C22_OnlyTargetedFieldsChange ==
    [][\A t \in Callers :
         (cpc[t] = "w_write" /\ cpc'[t] = "idle" /\ cret'[t] = "true")
         => \A j \in 1..total_len : \A k \in 0..7 :
                ~Targeted(cchg[t], j, k) => BitAt(db'[j], k) = BitAt(db[j], k)]_vars

=============================================================================
